---- MODULE Spec2Model ----
(***************************************************************************)
(* A model of mmd's parser (src/src/mmd/parse.py) and of the inline part   *)
(* of its HTML renderer (src/src/mmd/html.py).  A source line is a         *)
(* sequence of one-character strings; the document tree is an arena        *)
(* `docs` of Document records, a nested Document being named by its index; *)
(* `output` is the sequence of characters and tags the renderer yields.    *)
(***************************************************************************)
EXTENDS Integers, Sequences, FiniteSets, TLC

VARIABLES docs, stack, pc, lineno, raw, block, error, ev, output

vars == <<docs, stack, pc, lineno, raw, block, error, ev, output>>

(* ------------------------------------------------------------------ *)
(* Bounds of the model                                                 *)
(* ------------------------------------------------------------------ *)
MaxLines == 4

MaxTextLen == 4

(* ------------------------------------------------------------------ *)
(* Characters and slices                                               *)
(* ------------------------------------------------------------------ *)
Min(a, b) == IF a < b THEN a ELSE b

\* the characters \s matches, among those the model's lines are made of
Whitespace == {" "}

Upper == {"A", "T", "I", "V", "X", "C", "M"}

Roman == {"I", "V", "X", "C", "M"}

Digits == {"1", "2"}

\* text[n:]
Drop(text, n) == SubSeq(text, n + 1, Len(text))

\* text[:n]
Take(text, n) == SubSeq(text, 1, Min(n, Len(text)))

\* the length of the longest prefix of text made of characters of set
SpanLen(text, set) ==
    IF \A i \in 1..Len(text) : text[i] \in set
    THEN Len(text)
    ELSE (CHOOSE i \in 1..Len(text) :
              text[i] \notin set /\ \A j \in 1..(i - 1) : text[j] \in set) - 1

\* re.match(r'^\s*$', text)
IsBlank(text) == \A i \in 1..Len(text) : text[i] \in Whitespace

\* len of the group of re.match(r'^(\s*)', text)
LeadingSpace(text) == SpanLen(text, Whitespace)

StartsWith(text, prefix) ==
    Len(text) >= Len(prefix) /\ SubSeq(text, 1, Len(prefix)) = prefix

\* text.rstrip()
RStrip(text) ==
    IF IsBlank(text)
    THEN <<>>
    ELSE SubSeq(text, 1, CHOOSE i \in 1..Len(text) :
                     text[i] \notin Whitespace
                     /\ \A j \in (i + 1)..Len(text) : text[j] \in Whitespace)

\* text.lstrip()
LStrip(text) == Drop(text, LeadingSpace(text))

(* ------------------------------------------------------------------ *)
(* The line grammar's patterns                                         *)
(* ------------------------------------------------------------------ *)
\* re.match(r'^---', text)
TitleMatch(text) == StartsWith(text, <<"-", "-", "-">>)

\* re.match(r'^(#+)(\s*)(?:\s(.+)\s*)?$', text): the groups, title <<>> for None
HeadingMatch(text) ==
    LET level == SpanLen(text, {"#"})
        rest  == Drop(text, level)
        k     == LeadingSpace(rest)
    IN  IF level = 0
        THEN [ok |-> FALSE, level |-> 0, pad |-> 0, title |-> <<>>]
        ELSE IF k = Len(rest)
        THEN [ok |-> TRUE, level |-> level, pad |-> k, title |-> <<>>]
        ELSE IF k >= 1
        THEN [ok |-> TRUE, level |-> level, pad |-> k - 1, title |-> <<Drop(rest, k)>>]
        ELSE [ok |-> FALSE, level |-> 0, pad |-> 0, title |-> <<>>]

\* the backquote character (a string of the module cannot hold it)
Backquote == "BQ"

Fence == <<Backquote, Backquote, Backquote>>

\* re.match(r'^```(.+)?\s*$', text): language <<>> for None
BlockMatch(text) ==
    [ok |-> StartsWith(text, Fence),
     language |-> IF Len(text) > 3 THEN <<Drop(text, 3)>> ELSE <<>>]

\* re.match(r'^```\s*$', text)
BlockEndMatch(text) == StartsWith(text, Fence) /\ IsBlank(Drop(text, 3))

\* re.match(r'^(([_#]?)>\s*)', text): the length of the match (0: no match) and the kind
AsideMatch(text) ==
    IF Len(text) >= 1 /\ text[1] = ">"
    THEN [len |-> 1 + LeadingSpace(Drop(text, 1)), kind |-> <<>>]
    ELSE IF Len(text) >= 2 /\ text[1] \in {"_", "#"} /\ text[2] = ">"
    THEN [len |-> 2 + LeadingSpace(Drop(text, 2)), kind |-> <<text[1]>>]
    ELSE [len |-> 0, kind |-> <<>>]

\* one repetition of (?:[A-Z]+\.|\d+\.|[IVXCM]+\.|\s*-): its length, 0 for none
MarkerUnit(text) ==
    LET dotted(set) ==
            LET n == SpanLen(text, set)
            IN  IF n >= 1 /\ Len(text) > n /\ text[n + 1] = "." THEN n + 1 ELSE 0
        sp == LeadingSpace(text)
    IN  IF dotted(Upper) > 0 THEN dotted(Upper)
        ELSE IF dotted(Digits) > 0 THEN dotted(Digits)
        ELSE IF dotted(Roman) > 0 THEN dotted(Roman)
        ELSE IF Len(text) > sp /\ text[sp + 1] = "-" THEN sp + 1
        ELSE 0

\* the rest of the list pattern once `some` markers are matched: more markers
\* (greedy), else (?:\s+|$); -1 when the pattern fails
RECURSIVE MarkerTail(_, _)
MarkerTail(text, some) ==
    LET u    == MarkerUnit(text)
        more == IF u > 0 THEN MarkerTail(Drop(text, u), TRUE) ELSE -1
    IN  IF more >= 0 THEN u + more
        ELSE IF ~some THEN -1
        ELSE IF Len(text) = 0 THEN 0
        ELSE IF LeadingSpace(text) > 0 THEN LeadingSpace(text)
        ELSE -1

\* re.match(r'^((?:[A-Z]+\.|\d+\.|[IVXCM]+\.|\s*-)+(?:\s+|$))', text):
\* the length of the marker, 0 for no match
ListMatch(text) == IF MarkerTail(text, FALSE) > 0 THEN MarkerTail(text, FALSE) ELSE 0

(* ------------------------------------------------------------------ *)
(* Text/Word level parsing                                             *)
(* ------------------------------------------------------------------ *)
NONE == {}

\* the characters of [_*~`]
Sigils == {"_", "*", "~", Backquote}

\* the characters of ["\[\]]
Brackets == {"\"", "[", "]"}

\* the length of the first piece re.split cuts off text (text is not empty):
\* a delimiter of ([_*~`]{1,2}|["\[\]]|\s+), or the run of text before the next one
PieceLen(text) ==
    IF text[1] \in Sigils
    THEN IF Len(text) >= 2 /\ text[2] \in Sigils THEN 2 ELSE 1
    ELSE IF text[1] \in Brackets THEN 1
    ELSE IF text[1] \in Whitespace THEN SpanLen(text, Whitespace)
    ELSE LET plain == {text[i] : i \in 1..Len(text)} \ (Sigils \cup Brackets \cup Whitespace)
         IN  SpanLen(text, plain)

\* re.split(r'([_*~`]{1,2}|["\[\]]|\s+)', text) without its empty strings
RECURSIVE Split(_)
Split(text) ==
    IF Len(text) = 0
    THEN <<>>
    ELSE <<Take(text, PieceLen(text))>> \o Split(Drop(text, PieceLen(text)))

\* the dict `mapping`: the Modifier of a sigil character, NONE for any other
Mapping(c) ==
    CASE c = "*" -> {"BOLD"}
      [] c = "_" -> {"ITALIC"}
      [] c = "~" -> {"STRIKETHROUGH"}
      [] c = Backquote -> {"MONOSPACE"}
      [] c = "\"" -> {"QUOTES"}
      [] c = "[" -> {"SELECT"}
      [] c = "]" -> {"SELECT"}
      [] OTHER -> NONE

\* a | b in place of the a ^ b of lines 303 and 313
XorAsUnion(a, b) == a \cup b

\* a ^ b on Modifier flags
Xor(a, b) == (a \ b) \cup (b \ a)

\* applied, as line 300-302 computes it for the sigil token w
Applied(w) ==
    IF Len(w) = 2 \/ Mapping(w[1]) = {"QUOTES"}
    THEN Mapping(w[1]) \cup {"WITH_SPACES"}
    ELSE Mapping(w[1])

\* the test of line 306 without its `modifier != Modifier.NONE`
SpaceRefusedInNoneToo(modifier, w) ==
    "WITH_SPACES" \notin modifier /\ w[1] \in Whitespace

\* the test of line 306: this token is whitespace where none is allowed
SpaceRefused(modifier, w) ==
    modifier # NONE /\ "WITH_SPACES" \notin modifier /\ w[1] \in Whitespace

\* the loop of lines 283-313 with a whitespace token skipped after the test of
\* line 306 in place of the append of line 309
RECURSIVE WordLoopSkipsSpaces(_, _, _, _)
WordLoopSkipsSpaces(words, i, modifier, content) ==
    IF i > Len(words)
    THEN [err |-> "", content |-> content, modifier |-> modifier]
    ELSE IF Mapping(words[i][1]) # NONE
    THEN WordLoopSkipsSpaces(words, i + 1, Xor(modifier, Applied(words[i])), content)
    ELSE IF SpaceRefused(modifier, words[i])
    THEN [err |-> "ValueError: Spaces are not allowed here!",
          content |-> content, modifier |-> modifier]
    ELSE IF words[i][1] \in Whitespace
    THEN WordLoopSkipsSpaces(words, i + 1, modifier, content)
    ELSE WordLoopSkipsSpaces(words, i + 1, modifier,
                             Append(content, [value |-> words[i], modifier |-> modifier]))

\* the loop of lines 283-313 over words[i..]: the Words appended to source_line,
\* or the error raised
RECURSIVE WordLoop(_, _, _, _)
WordLoop(words, i, modifier, content) ==
    IF i > Len(words)
    THEN [err |-> "", content |-> content, modifier |-> modifier]
    ELSE IF Mapping(words[i][1]) # NONE
    THEN WordLoop(words, i + 1, Xor(modifier, Applied(words[i])), content)
    ELSE IF SpaceRefused(modifier, words[i])
    THEN [err |-> "ValueError: Spaces are not allowed here!",
          content |-> content, modifier |-> modifier]
    ELSE WordLoop(words, i + 1,
                  IF "ALIGN" \in modifier THEN Xor(modifier, {"ALIGN"}) ELSE modifier,
                  Append(content, [value |-> words[i], modifier |-> modifier]))

\* lines 279-313: the SourceLine of text, or the error
Tokenize(text, reference) ==
    LET r == WordLoop(Split(RStrip(text)), 1, NONE, <<>>)
    IN  [err |-> r.err,
         source_line |-> [reference |-> reference, content |-> r.content],
         modifier |-> r.modifier]

(* ------------------------------------------------------------------ *)
(* The document tree                                                   *)
(* ------------------------------------------------------------------ *)
\* Paragraph()
Paragraph == [kind |-> "Paragraph", content |-> <<>>]

\* Document(indent): title <<>> is None, content starts as [Paragraph()]
Document(indent) == [indent |-> indent, title |-> <<>>, content |-> <<Paragraph>>]

\* Section(level, title, document), the document named by its index in docs
Section(level, title, document) ==
    [kind |-> "Section", level |-> level, title |-> title, document |-> document]

Line == [kind |-> "Line", content |-> <<>>]

Aside(kind, document) == [kind |-> "Aside", akind |-> kind, document |-> document]

List(marker, document) == [kind |-> "List", marker |-> marker, document |-> document]

Block(language) == [kind |-> "Block", language |-> language, content |-> <<>>]

Word(value, modifier) == [value |-> value, modifier |-> modifier]

SourceLine(reference, content) == [reference |-> reference, content |-> content]

Last(seq) == seq[Len(seq)]

Front(seq) == SubSeq(seq, 1, Len(seq) - 1)

\* Paragraph.empty
ParagraphEmpty(p) == Len(p.content) = 0

\* Document.empty: all(c.empty() for c in self.content), which stops at the first
\* element that is not empty and raises on a Section, which has no empty()
AttributeErrorEmpty == "AttributeError: 'Section' object has no attribute 'empty'"

DocumentEmpty(d) ==
    LET stop(i) == d.content[i].kind = "Section" \/ ~ParagraphEmpty(d.content[i])
    IN  IF \A i \in 1..Len(d.content) : ~stop(i)
        THEN "True"
        ELSE LET i == CHOOSE i \in 1..Len(d.content) :
                          stop(i) /\ \A j \in 1..(i - 1) : ~stop(j)
             IN  IF d.content[i].kind = "Section" THEN AttributeErrorEmpty ELSE "False"

\* what content[-1] and content.pop() raise on an empty list
IndexErrorList == "IndexError: list index out of range"

\* Document.paragraph / Section.paragraph: the index of the Document whose last
\* content element is the Paragraph that ds[d].paragraph is; 0 when content[-1]
\* raises IndexError
RECURSIVE ParagraphHome(_, _)
ParagraphHome(ds, d) ==
    IF Len(ds[d].content) = 0 THEN 0
    ELSE IF Last(ds[d].content).kind = "Section"
    THEN ParagraphHome(ds, Last(ds[d].content).document)
    ELSE d

\* document.paragraph, when ParagraphHome is not 0
DocParagraph(ds, d) == Last(ds[ParagraphHome(ds, d)].content)

\* Paragraph.line / Aside.line / List.line / Block.line / Line.line of the
\* paragraph of ds[d]: the index of the Document whose paragraph ends in that
\* Line; 0 for None
RECURSIVE LineHome(_, _)
LineHome(ds, d) ==
    LET h == ParagraphHome(ds, d)
        p == Last(ds[h].content)
    IN  IF h = 0 THEN 0
        ELSE IF ParagraphEmpty(p) THEN 0
        ELSE IF Last(p.content).kind = "Line" THEN h
        ELSE IF Last(p.content).kind = "Block" THEN 0
        ELSE LineHome(ds, Last(p.content).document)

\* ds[d].paragraph.append(item)
ParagraphAppend(ds, d, item) ==
    LET h == ParagraphHome(ds, d)
    IN  [ds EXCEPT ![h].content[Len(ds[h].content)].content = Append(@, item)]

\* ds[d].paragraph.line.append(source_line), when LineHome is not 0
LineAppend(ds, d, source_line) ==
    LET h == LineHome(ds, d)
        i == Len(ds[h].content)
        j == Len(ds[h].content[i].content)
    IN  [ds EXCEPT ![h].content[i].content[j].content = Append(@, source_line)]

\* Document.append
DocumentAppend(ds, d, element) == [ds EXCEPT ![d].content = Append(@, element)]

\* Document.pop (the list is not empty)
DocumentPop(ds, d) == [ds EXCEPT ![d].content = Front(@)]

(* ------------------------------------------------------------------ *)
(* The scope stack                                                     *)
(* ------------------------------------------------------------------ *)
\* indent(): sum(d.indent for d in stack)
RECURSIVE IndentSum(_, _)
IndentSum(ds, stk) ==
    IF Len(stk) = 0 THEN 0 ELSE ds[Last(stk)].indent + IndentSum(ds, Front(stk))

\* document(): stack[-1]
Top(stk) == Last(stk)

\* the test of line 171 with the innermost scope's own indent for indent()
UnmatchedTopOnly(ds, stk, text) ==
    Len(stk) > 1 /\ Len(text) > 0 /\ ~IsBlank(Take(text, ds[Top(stk)].indent))

\* the test of the while of line 171
Unmatched(ds, stk, text) ==
    Len(stk) > 1 /\ Len(text) > 0 /\ ~IsBlank(Take(text, IndentSum(ds, stk)))

\* lines 172-178: one pass of the loop body
PopOne(ds, stk) ==
    LET previous == Top(stk)
        rest     == Front(stk)
        empty    == DocumentEmpty(ds[previous])
    IN  IF empty = AttributeErrorEmpty
        THEN [docs |-> ds, stack |-> rest, err |-> AttributeErrorEmpty]
        ELSE IF empty = "False" /\ ParagraphHome(ds, previous) = 0
        THEN [docs |-> ds, stack |-> rest, err |-> IndexErrorList]
        ELSE IF empty = "False" /\ ParagraphEmpty(DocParagraph(ds, previous))
        THEN [docs  |-> DocumentAppend(DocumentPop(ds, previous), Top(rest),
                                       Last(ds[previous].content)),
              stack |-> rest, err |-> ""]
        ELSE [docs |-> ds, stack |-> rest, err |-> ""]

\* lines 171-178: the loop; popped counts the stack.pop() calls made
RECURSIVE PopLoop(_, _, _, _)
PopNext(one, text, popped) ==
    IF one.err # ""
    THEN [docs |-> one.docs, stack |-> one.stack, err |-> one.err, popped |-> popped]
    ELSE PopLoop(one.docs, one.stack, text, popped)

PopLoop(ds, stk, text, popped) ==
    IF ~Unmatched(ds, stk, text)
    THEN [docs |-> ds, stack |-> stk, err |-> "", popped |-> popped]
    ELSE PopNext(PopOne(ds, stk), text, popped + 1)

(* ------------------------------------------------------------------ *)
(* One line of the main loop (the try body, lines 169-315)             *)
(* ------------------------------------------------------------------ *)
ValueErrorRoot == "ValueError: Invalid space on root document"

ValueErrorIndentation == "ValueError: Invalid indentation"

AttributeErrorAppend == "AttributeError: 'NoneType' object has no attribute 'append'"

\* what a step of the handler leaves: the tree, the stack, the error raised ("" for
\* none), the text still to classify
Step(ds, stk, err, text) == [docs |-> ds, stack |-> stk, err |-> err, text |-> text]

\* lines 180-181 alone: the indent is removed and no space is claimed
ClaimStripsOnly(ds, stk, text) ==
    IF DocumentEmpty(ds[Top(stk)]) = AttributeErrorEmpty
    THEN Step(ds, stk, AttributeErrorEmpty, Drop(text, IndentSum(ds, stk)))
    ELSE Step(ds, stk, "", Drop(text, IndentSum(ds, stk)))

\* lines 180-192 without the raise of lines 187-188
ClaimAtRootToo(ds, stk, text) ==
    LET stripped  == Drop(text, IndentSum(ds, stk))
        empty     == DocumentEmpty(ds[Top(stk)])
        remaining == LeadingSpace(stripped)
    IN  IF empty = AttributeErrorEmpty
        THEN Step(ds, stk, AttributeErrorEmpty, stripped)
        ELSE IF empty = "True"
        THEN Step([ds EXCEPT ![Top(stk)].indent = @ + remaining], stk, "",
                  Drop(stripped, remaining))
        ELSE Step(ds, stk, "", stripped)

\* lines 180-192: remove the indent, then claim space if the document is still empty
Claim(ds, stk, text) ==
    LET stripped  == Drop(text, IndentSum(ds, stk))
        empty     == DocumentEmpty(ds[Top(stk)])
        remaining == LeadingSpace(stripped)
    IN  IF empty = AttributeErrorEmpty
        THEN Step(ds, stk, AttributeErrorEmpty, stripped)
        ELSE IF empty = "True" /\ remaining > 0 /\ Len(stk) = 1
        THEN Step(ds, stk, ValueErrorRoot, stripped)
        ELSE IF empty = "True"
        THEN Step([ds EXCEPT ![Top(stk)].indent = @ + remaining], stk, "",
                  Drop(stripped, remaining))
        ELSE Step(ds, stk, "", stripped)

\* lines 196-197 with content[-1] read where it is popped
TitleKeepsContent(ds, stk) ==
    Step([ds EXCEPT ![Top(stk)].title = <<Last(ds[Top(stk)].content)>>,
                    ![Top(stk)].content = Append(@, Paragraph)],
         stk, "", <<>>)

\* lines 196-197: document().title = document().pop(); document().append(Paragraph())
Title(ds, stk) ==
    IF Len(ds[Top(stk)].content) = 0
    THEN Step(ds, stk, IndexErrorList, <<>>)
    ELSE Step([ds EXCEPT ![Top(stk)].title = <<Last(ds[Top(stk)].content)>>,
                         ![Top(stk)].content = Append(Front(@), Paragraph)],
              stk, "", <<>>)

\* lines 203-211: a new Section and its virtual document
Heading(ds, stk, m) ==
    IF ParagraphHome(ds, Top(stk)) = 0
    THEN Step(ds, stk, IndexErrorList, <<>>)
    ELSE LET pruned  == IF ParagraphEmpty(DocParagraph(ds, Top(stk)))
                        THEN DocumentPop(ds, Top(stk)) ELSE ds
             virtual == Len(ds) + 1
         IN  Step(Append(DocumentAppend(pruned, Top(stk),
                                        Section(m.level, m.title, virtual)),
                         Document(m.level + m.pad + 1)),
                  Append(stk, virtual), "", <<>>)

\* lines 236-244: an Aside and its virtual document, when the text opens one
AsideOpen(ds, stk, text) ==
    LET m       == AsideMatch(text)
        virtual == Len(ds) + 1
    IN  IF m.len = 0 THEN Step(ds, stk, "", text)
        ELSE IF ParagraphHome(ds, Top(stk)) = 0 THEN Step(ds, stk, IndexErrorList, text)
        ELSE Step(Append(ParagraphAppend(ds, Top(stk), Aside(m.kind, virtual)),
                         Document(m.len)),
                  Append(stk, virtual), "", Drop(text, m.len))

\* lines 247-255: a List and its virtual document, when the text opens one
ListOpen(ds, stk, text) ==
    LET n       == ListMatch(text)
        virtual == Len(ds) + 1
    IN  IF n = 0 THEN Step(ds, stk, "", text)
        ELSE IF ParagraphHome(ds, Top(stk)) = 0 THEN Step(ds, stk, IndexErrorList, text)
        ELSE Step(Append(ParagraphAppend(ds, Top(stk), List(Take(text, n), virtual)),
                         Document(n)),
                  Append(stk, virtual), "", Drop(text, n))

\* lines 258-265 without the skip of line 261
BlankAlwaysBreaks(ds, stk) == Step(DocumentAppend(ds, Top(stk), Paragraph), stk, "", <<>>)

\* lines 258-265: a whitespace-only text
Blank(ds, stk) ==
    IF ParagraphHome(ds, Top(stk)) = 0 THEN Step(ds, stk, IndexErrorList, <<>>)
    ELSE IF ParagraphEmpty(DocParagraph(ds, Top(stk))) THEN Step(ds, stk, "", <<>>)
    ELSE Step(DocumentAppend(ds, Top(stk), Paragraph), stk, "", <<>>)

\* lines 268-315: a new Line or a continued one, its words, and the append
Text(ds, stk, text, reference) ==
    LET new      == text[1] \notin Whitespace
        opened   == IF new THEN ParagraphAppend(ds, Top(stk), Line) ELSE ds
        tokens   == Tokenize(IF new THEN text ELSE LStrip(text), reference)
    IN  IF ParagraphHome(ds, Top(stk)) = 0 THEN Step(ds, stk, IndexErrorList, text)
        ELSE IF ~new /\ ParagraphEmpty(DocParagraph(ds, Top(stk)))
        THEN Step(ds, stk, ValueErrorIndentation, text)
        ELSE IF tokens.err # "" THEN Step(opened, stk, tokens.err, text)
        ELSE IF LineHome(opened, Top(stk)) = 0
        THEN Step(opened, stk, AttributeErrorAppend, text)
        ELSE Step(LineAppend(opened, Top(stk), tokens.source_line), stk, "", text)

\* what one pass of the for loop's try body leaves: the tree and the stack, the error
\* raised, how the line was classified (cls; at is the step that raised), how many
\* scopes it popped, whether it opened an Aside or a List, and the language of the
\* fence it opened
Outcome(s, cls, popped, aside, list, language) ==
    [docs |-> s.docs, stack |-> s.stack, err |-> s.err,
     cls |-> IF s.err # "" THEN "raise" ELSE cls,
     at |-> IF s.err # "" THEN cls ELSE "",
     popped |-> popped, aside |-> aside, list |-> list, language |-> language]

\* lines 257-315, reached with the stack and the text l that the Aside and List
\* steps left
Paragraphs(l, reference, popped, aside, list) ==
    IF l.err # "" THEN Outcome(l, "list", popped, aside, FALSE, <<>>)
    ELSE IF IsBlank(l.text)
    THEN Outcome(Blank(l.docs, l.stack),
                 IF ParagraphHome(l.docs, Top(l.stack)) # 0
                    /\ ParagraphEmpty(DocParagraph(l.docs, Top(l.stack)))
                 THEN "skip" ELSE "break",
                 popped, aside, list, <<>>)
    ELSE Outcome(Text(l.docs, l.stack, l.text, reference),
                 IF l.text[1] \in Whitespace THEN "continued" ELSE "line",
                 popped, aside, list, <<>>)

\* lines 246-255, reached with what the Aside step left
Lists(a, reference, popped, aside) ==
    IF a.err # "" THEN Outcome(a, "aside", popped, FALSE, FALSE, <<>>)
    ELSE Paragraphs(ListOpen(a.docs, a.stack, a.text), reference, popped, aside,
                    ListMatch(a.text) > 0)

\* lines 194-255, reached with what the pop loop and the claim left
Classify(c, reference, popped, heading, fence) ==
    IF c.err # "" THEN Outcome(c, "claim", popped, FALSE, FALSE, <<>>)
    ELSE IF TitleMatch(c.text)
    THEN Outcome(Title(c.docs, c.stack), "title", popped, FALSE, FALSE, <<>>)
    ELSE IF heading.ok
    THEN Outcome(Heading(c.docs, c.stack, heading), "heading", popped, FALSE, FALSE, <<>>)
    ELSE IF fence.ok
    THEN Outcome(c, "fence", popped, FALSE, FALSE, fence.language)
    ELSE Lists(AsideOpen(c.docs, c.stack, c.text), reference, popped,
               AsideMatch(c.text).len > 0)

\* lines 180-192, reached with what the pop loop left
Strip(p, text, reference) ==
    IF p.err # "" THEN Outcome(p, "pop", p.popped, FALSE, FALSE, <<>>)
    ELSE Classify(Claim(p.docs, p.stack, text), reference, p.popped,
                  HeadingMatch(Claim(p.docs, p.stack, text).text),
                  BlockMatch(Claim(p.docs, p.stack, text).text))

\* lines 169-315 for the line text read as lines[lineno]
Handle(ds, stk, text, reference) == Strip(PopLoop(ds, stk, text, 0), text, reference)

\* lines 317-319: the note the handler adds reads lines[lineno][indent()], which
\* raises IndexError in place of err when that line is no longer than the indent
Reraise(err, ds, stk, line) ==
    IF Len(line) > IndentSum(ds, stk) THEN err ELSE "IndexError: string index out of range"

(* ------------------------------------------------------------------ *)
(* The HTML renderer (src/src/mmd/html.py)                             *)
(* ------------------------------------------------------------------ *)
\* the flags all_tags tests, in its order
TagFlags == <<"QUOTES", "BOLD", "ITALIC", "MONOSPACE", "SELECT", "STRIKETHROUGH">>

\* the start and end tags all_tags passes for a flag
StartTag(flag) ==
    CASE flag = "QUOTES" -> "<q>"
      [] flag = "BOLD" -> "<strong>"
      [] flag = "ITALIC" -> "<i>"
      [] flag = "MONOSPACE" -> "<code>"
      [] flag = "SELECT" -> "<mark>"
      [] flag = "STRIKETHROUGH" -> "<s>"

EndTag(flag) ==
    CASE flag = "QUOTES" -> "</q>"
      [] flag = "BOLD" -> "</strong>"
      [] flag = "ITALIC" -> "</i>"
      [] flag = "MONOSPACE" -> "</code>"
      [] flag = "SELECT" -> "</mark>"
      [] flag = "STRIKETHROUGH" -> "</s>"

\* as_tag(s, modifier, start, end): what it adds to output
AsTag(s, flag) == IF flag \in s THEN StartTag(flag) ELSE EndTag(flag)

\* all_tags(diff), w.modifier being current: what it adds to output
AllTags(diff, current) ==
    LET out[i \in 0..Len(TagFlags)] ==
            IF i = 0 THEN <<>>
            ELSE IF TagFlags[i] \in diff
            THEN Append(out[i - 1], AsTag(current, TagFlags[i]))
            ELSE out[i - 1]
    IN  out[Len(TagFlags)]

\* lines 36-42 for one SourceLine's content from its word i on; at line 41 w is
\* still the last Word, whose modifier is prev
RECURSIVE WordsAsHtml(_, _, _, _)
WordsAsHtml(content, i, prev, out) ==
    IF i > Len(content)
    THEN out \o AllTags(prev, prev) \o <<" ">>
    ELSE WordsAsHtml(content, i + 1, content[i].modifier,
                     out \o AllTags(Xor(prev, content[i].modifier), content[i].modifier)
                         \o content[i].value)

\* lines 35-42: the loop over the SourceLines of l from the i-th on
RECURSIVE SourcesAsHtml(_, _)
SourcesAsHtml(l, i) ==
    IF i > Len(l.content) THEN <<>>
    ELSE WordsAsHtml(l.content[i].content, 1, NONE, <<>>) \o SourcesAsHtml(l, i + 1)

\* l_as_html(l): output.rstrip() + '<br>', as a sequence of characters and tags
LAsHtml(l) == Append(RStrip(SourcesAsHtml(l, 1)), "<br>")

\* p_as_html(p, nesting) for a Paragraph of Lines: the last Line loses its <br>
PAsHtml(p) ==
    LET out[i \in 0..Len(p.content)] ==
            IF i = 0 THEN <<"<p>">>
            ELSE out[i - 1] \o (IF i = Len(p.content)
                                THEN Front(LAsHtml(p.content[i]))
                                ELSE LAsHtml(p.content[i]))
    IN  Append(out[Len(p.content)], "</p>")

\* d_as_html(d, nesting) for a Document without title whose content is Paragraphs
DAsHtml(d) ==
    LET out[i \in 0..Len(d.content)] ==
            IF i = 0 THEN <<>> ELSE out[i - 1] \o PAsHtml(d.content[i])
    IN  out[Len(d.content)]

\* the documents the renderer is modelled for: no title, Paragraphs of Lines
Renderable(d) ==
    /\ d.title = <<>>
    /\ \A i \in 1..Len(d.content) :
           /\ d.content[i].kind = "Paragraph"
           /\ \A j \in 1..Len(d.content[i].content) :
                  d.content[i].content[j].kind = "Line"

(* ------------------------------------------------------------------ *)
(* The inputs                                                          *)
(* ------------------------------------------------------------------ *)
\* the lines a file of the main specification is made of
Lines ==
    { <<>>,
      <<" ", " ">>,
      <<" ", " ", " ">>,
      <<"a">>,
      <<" ", " ", "a">>,
      <<"#", " ", "T">>,
      <<" ", " ", "#", " ", "T">>,
      <<"-", "-", "-">>,
      Fence,
      <<" ", " ">> \o Fence,
      <<">", " ", "a">>,
      <<"-", " ", "a">> }

\* the characters and the one-line files of the inline specification
InlineChars == {"a", " ", "*", "\"", "[", "]"}

InlineTexts == UNION {[1..n -> InlineChars] : n \in 1..MaxTextLen}

(* ------------------------------------------------------------------ *)
(* parse(file) as a state machine                                      *)
(* ------------------------------------------------------------------ *)
\* line 152; lines_iterator has yielded nothing yet
Init ==
    /\ docs = <<Document(0)>>
    /\ stack = <<1>>
    /\ pc = "main"
    /\ lineno = -1
    /\ raw = <<>>
    /\ block = <<>>
    /\ error = ""
    /\ ev = [cls |-> "start", prev |-> "start", at |-> "", err |-> "", popped |-> 0,
             aside |-> FALSE, list |-> FALSE]
    /\ output = <<>>

\* one pass of the for loop of line 165 over the line text, up to its continue, to
\* the first next() of an opened fence, or to the raise of the handler
ReadLine(text) ==
    /\ pc = "main"
    /\ lineno + 1 < MaxLines
    /\ LET r == Handle(docs, stack, text, lineno + 2)
       IN  /\ docs' = r.docs
           /\ stack' = r.stack
           /\ pc' = IF r.cls = "raise" THEN "error"
                    ELSE IF r.cls = "fence" THEN "fence" ELSE "main"
           /\ error' = IF r.cls = "raise" THEN Reraise(r.err, r.docs, r.stack, text)
                       ELSE ""
           /\ block' = IF r.cls = "fence" THEN <<Block(r.language)>> ELSE <<>>
           /\ ev' = [cls |-> r.cls, prev |-> ev.cls, at |-> r.at, err |-> r.err,
                     popped |-> r.popped, aside |-> r.aside, list |-> r.list]
    /\ lineno' = lineno + 1
    /\ raw' = text
    /\ output' = output

\* lines 225-228 with the whole line for text[indent():]
RawLineWhole(ds, stk, text, index) == SourceLine(index, <<Word(text, {"BLOCK"})>>)

\* lines 225-228: the SourceLine a line inside a fence becomes, index being the
\* lineno next() gave with it
RawLine(ds, stk, text, index) ==
    SourceLine(index, <<Word(Drop(text, IndentSum(ds, stk)), {"BLOCK"})>>)

\* lines 221-233 with a next() that yields a line without advancing the iterator
ScanLineRereads(text) ==
    /\ pc = "fence"
    /\ lineno + 1 < MaxLines
    /\ lineno' = lineno
    /\ raw' = text
    /\ stack' = stack
    /\ output' = output
    /\ IF BlockEndMatch(Drop(text, IndentSum(docs, stack)))
       THEN IF ParagraphHome(docs, Top(stack)) = 0
            THEN /\ pc' = "error"
                 /\ error' = Reraise(IndexErrorList, docs, stack, text)
                 /\ UNCHANGED <<docs, block>>
                 /\ ev' = [ev EXCEPT !.cls = "raise", !.prev = ev.cls, !.at = "block",
                                      !.err = IndexErrorList]
            ELSE /\ docs' = ParagraphAppend(docs, Top(stack), block[1])
                 /\ block' = <<>>
                 /\ pc' = "main"
                 /\ error' = ""
                 /\ ev' = [ev EXCEPT !.cls = "block", !.prev = ev.cls]
       ELSE /\ block' = <<[block[1] EXCEPT !.content = Append(@,
                                  RawLine(docs, stack, text, lineno + 1))]>>
            /\ ev' = [ev EXCEPT !.cls = "scan", !.prev = ev.cls]
            /\ UNCHANGED <<docs, pc, error>>

\* lines 221-233: next(lines_iterator) inside an open fence yields the line text:
\* the closing fence pushes the block, any other line joins it
ScanLine(text) ==
    /\ pc = "fence"
    /\ lineno + 1 < MaxLines
    /\ lineno' = lineno + 1
    /\ raw' = text
    /\ stack' = stack
    /\ output' = output
    /\ IF BlockEndMatch(Drop(text, IndentSum(docs, stack)))
       THEN IF ParagraphHome(docs, Top(stack)) = 0
            THEN /\ pc' = "error"
                 /\ error' = Reraise(IndexErrorList, docs, stack, text)
                 /\ UNCHANGED <<docs, block>>
                 /\ ev' = [ev EXCEPT !.cls = "raise", !.prev = ev.cls, !.at = "block",
                                      !.err = IndexErrorList]
            ELSE /\ docs' = ParagraphAppend(docs, Top(stack), block[1])
                 /\ block' = <<>>
                 /\ pc' = "main"
                 /\ error' = ""
                 /\ ev' = [ev EXCEPT !.cls = "block", !.prev = ev.cls]
       ELSE /\ block' = <<[block[1] EXCEPT !.content = Append(@,
                                  RawLine(docs, stack, text, lineno + 1))]>>
            /\ ev' = [ev EXCEPT !.cls = "scan", !.prev = ev.cls]
            /\ UNCHANGED <<docs, pc, error>>

\* next(lines_iterator) inside an open fence raises StopIteration, which the handler
\* of line 317 annotates and re-raises
ScanEnd ==
    /\ pc = "fence"
    /\ pc' = "error"
    /\ error' = Reraise("StopIteration", docs, stack, raw)
    /\ ev' = [ev EXCEPT !.cls = "raise", !.prev = ev.cls, !.at = "next",
                         !.err = "StopIteration"]
    /\ UNCHANGED <<docs, stack, lineno, raw, block, output>>

\* line 321: the for loop is exhausted, return stack[0]
Return ==
    /\ pc = "main"
    /\ pc' = "done"
    /\ ev' = [ev EXCEPT !.cls = "return", !.prev = ev.cls]
    /\ UNCHANGED <<docs, stack, lineno, raw, block, error, output>>

Next ==
    \/ \E text \in Lines : ReadLine(text)
    \/ \E text \in Lines : ScanLine(text)
    \/ ScanEnd
    \/ Return

Spec == Init /\ [][Next]_vars

\* parse runs on: the file is finite, so the for loop of line 165 comes to its
\* end and the next() of an open fence to its StopIteration unless a line is read
LiveSpec == Spec /\ WF_vars(Return) /\ WF_vars(ScanEnd)

\* files of one line of inline text
ReadOnlyLine(text) == lineno = -1 /\ ReadLine(text)

\* html.py line 193-194 once parse has returned: the strings d_as_html(root, 0)
\* yields, which as_html sets in its page template
AsHtml ==
    /\ pc = "done"
    /\ Renderable(docs[stack[1]])
    /\ pc' = "rendered"
    /\ output' = DAsHtml(docs[stack[1]])
    /\ UNCHANGED <<docs, stack, lineno, raw, block, error, ev>>

InlineNext ==
    \/ \E text \in InlineTexts : ReadOnlyLine(text)
    \/ Return
    \/ AsHtml

InlineSpec == Init /\ [][InlineNext]_vars

(* ------------------------------------------------------------------ *)
(* Properties                                                          *)
(* ------------------------------------------------------------------ *)
\* the columns the first k scopes of the stack require, by the indent widths the
\* tree held before the line
Column(k) ==
    LET sum[i \in 0..k] == IF i = 0 THEN 0 ELSE sum[i - 1] + docs[stack[i]].indent
    IN  sum[k]

\* the line text reaches the column the first k scopes require
ReachesColumn(text, k) == \A i \in 1..Len(text) : i <= Column(k) => text[i] = " "

IsEmptyParagraph(x) == x.kind = "Paragraph" /\ x.content = <<>>

\* a step of the main loop that read one more line
LineRead == pc = "main" /\ lineno' = lineno + 1

\* C1: the input `# Title` / `Body text.` parses to a root holding one Section of
\* level 1 whose Document has one Paragraph with one Line, and any non-blank line
\* that de-indents back to a document whose content starts with a Section is
\* parsed without error.
C1_DeindentedBodyParses ==
    /\ (lineno = 1 /\ ev.prev = "heading" /\ raw = <<"a">>) =>
           /\ pc # "error"
           /\ Len(docs[1].content) = 1
           /\ docs[1].content[1].kind = "Section"
           /\ docs[1].content[1].level = 1
           /\ LET body == docs[docs[1].content[1].document].content
              IN  /\ Len(body) = 1
                  /\ body[1].kind = "Paragraph"
                  /\ Len(body[1].content) = 1
                  /\ body[1].content[1].kind = "Line"
    /\ (lineno >= 1 /\ ev.popped > 0 /\ ~IsBlank(raw)
        /\ Len(docs[Top(stack)].content) > 0
        /\ docs[Top(stack)].content[1].kind = "Section") => pc # "error"

\* C2: on every line read, each scope popped is one whose required column the line
\* fails to reach, innermost first; popping stops at the root or at the first
\* stack whose columns are all whitespace in the line; a blank line pops nothing.
C2_PopsExactlyUnreached ==
    [][LineRead =>
          LET n == ev'.popped
          IN  /\ n < Len(stack)
              /\ \A j \in 0..(n - 1) : ~ReachesColumn(raw', Len(stack) - j)
              /\ ev'.at # "pop" =>
                     (Len(stack) - n = 1 \/ ReachesColumn(raw', Len(stack) - n))
              /\ IsBlank(raw') => n = 0]_vars

\* a line popped two scopes, the loop did not raise, and the parse goes on with
\* the root alone on the stack
C2_Witness == ev.popped = 2 /\ ev.at # "pop" /\ Len(stack) = 1 /\ pc = "main"

\* the nested Document c is held by a Section of d's content or by an Aside or
\* a List of one of d's paragraphs
HeldBy(d, c) ==
    \E i \in 1..Len(docs[d].content) :
        LET x == docs[d].content[i]
        IN  IF x.kind = "Section" THEN x.document = c
            ELSE \E j \in 1..Len(x.content) :
                     x.content[j].kind \in {"Aside", "List"}
                     /\ x.content[j].document = c

\* C3: after every processed line the scope stack is a path in the tree (each
\* entry above the root is the Document of a Section, Aside or List held in the
\* entry just below it), and no Document that has been popped receives new content.
C3_StackIsPath ==
    /\ [](pc # "error" => \A i \in 2..Len(stack) : HeldBy(stack[i - 1], stack[i]))
    /\ [][\A d \in 1..Len(docs) :
              (\A i \in 1..Len(stack) : stack[i] # d)
              /\ (\A i \in 1..Len(stack') : stack'[i] # d)
              => docs'[d].content = docs[d].content]_vars

\* C4: after every processed line no Document's content ends in two empty
\* Paragraphs.
C4_OneTrailingEmpty ==
    \A d \in 1..Len(docs) :
        LET c == docs[d].content
        IN  ~(Len(c) >= 2 /\ IsEmptyParagraph(c[Len(c)])
              /\ IsEmptyParagraph(c[Len(c) - 1]))

\* a scope pop relocated an empty Paragraph, a title marker took it and put a
\* fresh one in its place
C4_Witness ==
    /\ ev.cls = "title" /\ ev.popped > 0
    /\ docs[Top(stack)].title = <<Paragraph>>
    /\ Len(docs[Top(stack)].content) >= 2
    /\ IsEmptyParagraph(Last(docs[Top(stack)].content))

\* C5: the first blank line after a non-empty paragraph appends exactly one empty
\* Paragraph to the current document, and every further blank line of the run
\* leaves the tree and the stack as they are.
C5_BlankRunBreaksOnce ==
    [][(LineRead /\ IsBlank(raw')) =>
          /\ (ParagraphHome(docs, Top(stack)) # 0
              /\ DocParagraph(docs, Top(stack)).content # <<>>) =>
                 /\ docs' = [docs EXCEPT ![Top(stack)].content = Append(@, Paragraph)]
                 /\ stack' = stack /\ pc' = "main"
          /\ (ev.cls \in {"break", "skip"} /\ Len(docs[Top(stack)].content) >= 2) =>
                 /\ docs' = docs
                 /\ stack' = stack /\ pc' = "main"]_vars

\* a third blank line in a row was read after a paragraph break
C5_Witness ==
    /\ ev.cls = "skip" /\ ev.prev = "skip" /\ lineno >= 3
    /\ Len(docs[Top(stack)].content) = 2
    /\ IsEmptyParagraph(Last(docs[Top(stack)].content))

\* C6: a line beginning with --- makes the Paragraph that was the last element of
\* the current document's content its title, and puts a fresh empty Paragraph in
\* its place: the content keeps its length and its earlier elements.
C6_TitleTakesLastParagraph ==
    [][(LineRead /\ ev'.cls = "title") =>
          LET before == docs[Top(stack')].content
              after  == docs'[Top(stack')].content
          IN  /\ Len(docs'[Top(stack')].title) = 1
              /\ docs'[Top(stack')].title[1].kind = "Paragraph"
              /\ IsEmptyParagraph(Last(after))
              /\ ev'.popped = 0 =>
                     /\ docs'[Top(stack')].title = <<Last(before)>>
                     /\ Len(after) = Len(before)
                     /\ Front(after) = Front(before)]_vars

\* C7: inside a fence every line read becomes one SourceLine of the Block, holding
\* one Word with the BLOCK modifier and the text after the total indent; the stack,
\* the indent widths and the tree are unchanged until the closing fence, which
\* appends the Block to the current paragraph and changes nothing else.
C7_FenceScansVerbatim ==
    [][(pc = "fence" /\ lineno' = lineno + 1) =>
          LET cut == SubSeq(raw', Column(Len(stack)) + 1, Len(raw'))
          IN  /\ stack' = stack
              /\ Len(docs') = Len(docs)
              /\ \A d \in 1..Len(docs) : docs'[d].indent = docs[d].indent
              /\ IF BlockEndMatch(cut)
                 THEN /\ pc' = "main"
                      /\ docs' = ParagraphAppend(docs, Top(stack), block[1])
                 ELSE /\ pc' = "fence"
                      /\ docs' = docs
                      /\ Len(block'[1].content) = Len(block[1].content) + 1
                      /\ Front(block'[1].content) = block[1].content
                      /\ Last(block'[1].content).content =
                             <<[value |-> cut, modifier |-> {"BLOCK"}]>>]_vars

\* a fence opened inside a nested scope closed after a line that did not reach the
\* scope's column
C7_Witness ==
    /\ ev.cls = "block" /\ Len(stack) >= 2
    /\ LET p == DocParagraph(docs, Top(stack))
       IN  /\ Last(p.content).kind = "Block"
           /\ Len(Last(p.content).content) >= 1
           /\ Last(p.content).content[1].content[1].value = <<>>

\* C8: when an opened fence meets the end of input, the error that reaches the caller
\* is the iterator's StopIteration, whatever the last line read.
C8_UnclosedFenceStops ==
    (pc = "error" /\ ev.at = "next") => error = "StopIteration"

\* the pieces of the one line of an inline file, which starts a new Line
InlineWords == Split(RStrip(raw))

InlineLineRead == lineno = 0 /\ raw # <<>> /\ raw[1] \notin Whitespace

\* the running modifier state after the first i pieces, were no piece refused
Running(words, i) ==
    LET st[k \in 0..i] ==
            IF k = 0 THEN NONE
            ELSE IF Mapping(words[k][1]) # NONE THEN Xor(st[k - 1], Applied(words[k]))
            ELSE st[k - 1]
    IN  st[i]

\* the whitespace pieces read in a state that is not NONE and lacks WITH_SPACES
Refused(words) ==
    {i \in 1..Len(words) :
        /\ words[i][1] = " "
        /\ Running(words, i - 1) # {}
        /\ "WITH_SPACES" \notin Running(words, i - 1)}

\* C9: a whitespace token is accepted exactly when the running modifier state is
\* NONE or holds WITH_SPACES; in any other state the parse raises `Spaces are not
\* allowed here!` and returns no Document.
C9_SpaceNeedsAllowance ==
    InlineLineRead =>
        IF Refused(InlineWords) = {}
        THEN pc # "error"
        ELSE pc = "error" /\ error = "ValueError: Spaces are not allowed here!"

\* a line was accepted with a whitespace token read in a state that holds
\* WITH_SPACES
C9_Witness ==
    /\ InlineLineRead /\ pc = "main"
    /\ \E i \in 1..Len(InlineWords) :
           InlineWords[i][1] = " " /\ "WITH_SPACES" \in Running(InlineWords, i - 1)

\* the span flags among QUOTES and SELECT that the first i pieces leave toggled on
Spans(words, i) ==
    LET st[k \in 0..i] ==
            IF k = 0 THEN {}
            ELSE IF words[k][1] = "\"" THEN Xor(st[k - 1], {"QUOTES"})
            ELSE IF words[k][1] \in {"[", "]"} THEN Xor(st[k - 1], {"SELECT"})
            ELSE st[k - 1]
    IN  st[i]

\* C10: the quote sigil and the bracket pair both allow spaces: a line whose only
\* sigils are quotes and brackets, none opened inside the other, is tokenized
\* without the inline spacing error.
C10_QuotesAndBracketsAllowSpaces ==
    (/\ InlineLineRead
     /\ \A i \in 1..Len(InlineWords) :
            /\ InlineWords[i][1] \notin Sigils
            /\ Cardinality(Spans(InlineWords, i)) <= 1) => pc # "error"

\* the Words of the one SourceLine of the one Line an inline file parses to
InlineContent == docs[1].content[1].content[1].content[1].content

\* the values of the Words of content, joined
RECURSIVE Joined(_)
Joined(content) ==
    IF Len(content) = 0 THEN <<>> ELSE Joined(Front(content)) \o Last(content).value

\* text without its sigil characters
RECURSIVE Plain(_)
Plain(text) ==
    IF Len(text) = 0 THEN <<>>
    ELSE Plain(Front(text)) \o (IF Mapping(Last(text)) # NONE THEN <<>> ELSE <<Last(text)>>)

\* the number of the sigil characters of text that toggle the flag m
Occurrences(text, m) == Cardinality({i \in 1..Len(text) : Mapping(text[i]) = {m}})

\* the number of the sigil tokens of words that apply the flags a
TokenCount(words, a) ==
    Cardinality({i \in 1..Len(words) :
                    Mapping(words[i][1]) # NONE /\ Applied(words[i]) = a})

SigilFlags == {"BOLD", "QUOTES", "SELECT"}

\* what the statement of C11 promises of the line read
RoundTrips ==
    /\ pc # "error"
    /\ Tokenize(raw, lineno + 1).modifier = NONE
    /\ Joined(InlineContent) = Plain(RStrip(raw))

\* the statement of C11 as the spec words it: for any inline text in which every
\* sigil kind occurs an even number of times, tokenizing succeeds, the running
\* state is NONE at the end and the Words' values joined are the text without its
\* sigil characters.
C11_BalancedRoundTrips ==
    (InlineLineRead /\ \A m \in SigilFlags : Occurrences(raw, m) % 2 = 0) => RoundTrips

\* C11: for any inline text in which every sigil token (a single sigil, a doubled
\* sigil, a quote, a bracket) occurs an even number of times and no whitespace is
\* read in a state that is not NONE and lacks WITH_SPACES, tokenizing succeeds, the
\* running state is NONE at the end and the Words' values joined are the text
\* (trailing whitespace stripped) without its sigil characters.
C11_BalancedSpacedRoundTrips ==
    (/\ InlineLineRead
     /\ \A m \in SigilFlags : \A a \in {{m}, {m, "WITH_SPACES"}} :
            TokenCount(InlineWords, a) % 2 = 0
     /\ Refused(InlineWords) = {}) => RoundTrips

\* a line with a closed quoted span that holds a space was read
C11_Witness ==
    /\ InlineLineRead /\ pc = "main"
    /\ TokenCount(InlineWords, {"QUOTES", "WITH_SPACES"}) = 2
    /\ Refused(InlineWords) = {}
    /\ \E i \in 1..Len(InlineContent) :
           InlineContent[i].value = <<" ">> /\ "QUOTES" \in InlineContent[i].modifier

\* the tokens of words, each with the modifier state it is read in
Tagged(words) ==
    [i \in 1..Len(words) |-> [value |-> words[i], modifier |-> Running(words, i - 1)]]

IsSigilWord(w) == Mapping(w.value[1]) # NONE

IsSpaceWord(w) == w.value[1] \in Whitespace

NotSigilWord(w) == ~IsSigilWord(w)

NotSigilNorSpaceWord(w) == ~IsSigilWord(w) /\ ~IsSpaceWord(w)

\* the statement of C12 as the spec words it: the Words of a tokenized line are
\* exactly its non-sigil, non-whitespace tokens, in order, each with the modifier
\* state current when it was read.
C12_WordsSkipSigilsAndSpaces ==
    (InlineLineRead /\ pc # "error") =>
        InlineContent = SelectSeq(Tagged(InlineWords), NotSigilNorSpaceWord)

\* C12: the Words of a tokenized line are exactly its non-sigil tokens, whitespace
\* tokens included, in order, each with the modifier state current when it was
\* read; sigil tokens produce no Word.
C12_WordsSkipSigils ==
    (InlineLineRead /\ pc # "error") =>
        InlineContent = SelectSeq(Tagged(InlineWords), NotSigilWord)

\* a line was tokenized that holds a sigil, a whitespace token and a styled word
C12_Witness ==
    /\ InlineLineRead /\ pc = "main"
    /\ Len(InlineContent) < Len(InlineWords)
    /\ \E i \in 1..Len(InlineContent) : IsSpaceWord(InlineContent[i])
    /\ \E i \in 1..Len(InlineContent) :
           ~IsSpaceWord(InlineContent[i]) /\ InlineContent[i].modifier # NONE

\* the SourceLine the last line read became: the last one of the Line it joined, or
\* the last one of the open Block
NewestSourceLine ==
    IF ev.cls = "scan"
    THEN Last(block[1].content)
    ELSE LET h == LineHome(docs, Top(stack))
             p == Last(docs[h].content)
         IN  Last(Last(p.content).content)

\* C13: every SourceLine, whether it sits in a Line or in a code Block, carries the
\* 1-based index of the physical input line its text came from (lineno is the
\* 0-based index of the line read last).
C13_PositionsAreOneBased ==
    (pc \in {"main", "fence"} /\ ev.cls \in {"line", "continued", "scan"}) =>
        NewestSourceLine.reference = lineno + 1

\* C14: at every step the scope stack is non-empty, its bottom entry is the root
\* Document created at parse start (so the root is never popped and a successful
\* parse returns it), and the root's indent width stays 0: a line with leading
\* whitespace that reaches an empty root raises `Invalid space on root document`
\* and claims nothing.
C14_RootStaysAtBottom ==
    /\ [](Len(stack) >= 1 /\ stack[1] = 1 /\ docs[1].indent = 0)
    /\ [][LineRead =>
             LET p == PopLoop(docs, stack, raw', 0)
             IN  (/\ p.err = "" /\ p.stack = <<1>>
                  /\ DocumentEmpty(p.docs[1]) = "True"
                  /\ LeadingSpace(raw') > 0) =>
                     /\ pc' = "error" /\ error' = ValueErrorRoot
                     /\ docs' = p.docs /\ stack' = <<1>>]_vars

\* a line with leading whitespace reached the empty root after an earlier line, and
\* was refused
C14_Witness ==
    /\ pc = "error" /\ error = ValueErrorRoot /\ lineno >= 1
    /\ stack = <<1>> /\ LeadingSpace(raw) > 0 /\ docs[1].indent = 0

\* the tags for the flags that differ between the states a and b, in the renderer's
\* order: an opening tag for a flag b turns on, a closing tag for one it turns off
Edges(a, b) ==
    LET out[i \in 0..Len(TagFlags)] ==
            IF i = 0 THEN <<>>
            ELSE IF TagFlags[i] \in b \ a THEN Append(out[i - 1], StartTag(TagFlags[i]))
            ELSE IF TagFlags[i] \in a \ b THEN Append(out[i - 1], EndTag(TagFlags[i]))
            ELSE out[i - 1]
    IN  out[Len(TagFlags)]

\* the Words of content with a tag at every edge, and every flag of the last Word
\* closed at the end
Tagging(content) ==
    LET out[i \in 0..Len(content)] ==
            IF i = 0 THEN <<>>
            ELSE out[i - 1]
                 \o Edges(IF i = 1 THEN NONE ELSE content[i - 1].modifier,
                          content[i].modifier)
                 \o content[i].value
    IN  out[Len(content)]
        \o Edges(IF Len(content) = 0 THEN NONE ELSE Last(content).modifier, NONE)

\* C15: for the SourceLine of a rendered line the renderer emits an opening tag
\* exactly where a style flag turns on between consecutive Words, a closing tag
\* exactly where it turns off, and closes every flag still set on the last Word at
\* the end of the SourceLine, so that its inline tags are balanced.
C15_RenderedTagsBalance ==
    (pc = "rendered" /\ InlineLineRead) =>
        output = <<"<p>">> \o Tagging(InlineContent) \o <<"</p>">>

\* the Word the non-sigil token j of the line became
WordOf(j) ==
    InlineContent[Cardinality({k \in 1..j : Mapping(InlineWords[k][1]) = NONE})]

\* the token i is a doubled sigil that opens a span: its flag was off before it
OpensDoubled(i) ==
    /\ Len(InlineWords[i]) = 2
    /\ Mapping(InlineWords[i][1]) # NONE
    /\ Mapping(InlineWords[i][1]) \cap Running(InlineWords, i - 1) = {}

\* the span the token i opened is still open after the token j
StillOpen(i, j) ==
    \A k \in i..j : Mapping(InlineWords[i][1]) \subseteq Running(InlineWords, k)

\* C16: when a doubled sigil opens a span, the spaces-allowed flag is set for the
\* whole span, whatever the state was before: every Word read inside the span
\* carries WITH_SPACES.
C16_DoubledSigilAllowsSpaces ==
    (InlineLineRead /\ pc # "error") =>
        \A i \in 1..Len(InlineWords) : \A j \in i..Len(InlineWords) :
            (/\ OpensDoubled(i) /\ StillOpen(i, j)
             /\ Mapping(InlineWords[j][1]) = NONE) =>
                "WITH_SPACES" \in WordOf(j).modifier

\* C17: apart from title assignment, a Section once appended to a Document stays
\* where it is: no heading line and no scope pop deletes it or moves it to another
\* Document (what they remove is an empty Paragraph).
C17_SectionsStay ==
    [][(LineRead /\ ev'.cls # "title" /\ ev'.at # "title") =>
          \A d \in 1..Len(docs) : \A i \in 1..Len(docs[d].content) :
              docs[d].content[i].kind = "Section" =>
                  /\ Len(docs'[d].content) >= i
                  /\ docs'[d].content[i] = docs[d].content[i]]_vars

\* every element of d's content is an empty Paragraph
EntirelyEmpty(d) == \A i \in 1..Len(d.content) : IsEmptyParagraph(d.content[i])

\* a whitespace-only line is read while the current paragraph is empty
BlankOnEmptyParagraph ==
    /\ LineRead /\ IsBlank(raw')
    /\ ParagraphHome(docs, Top(stack)) # 0
    /\ ParagraphEmpty(DocParagraph(docs, Top(stack)))

\* the statement of C18 as the spec words it: a whitespace-only line that arrives
\* while the current paragraph is empty leaves the tree, the stack and every indent
\* width unchanged and raises no error, in every reachable state.
C18_BlankOnEmptyIsNoOp ==
    [][BlankOnEmptyParagraph => (docs' = docs /\ stack' = stack /\ pc' = "main")]_vars

\* C18: a whitespace-only line that arrives while the current paragraph is empty is
\* a no-op, unless the current document is entirely empty and the line holds
\* whitespace beyond the total indent: then the root raises `Invalid space on root
\* document` and a nested scope claims that whitespace as its indent, nothing else
\* changing.
C18_BlankOnEmptyClaimsOrSkips ==
    [][BlankOnEmptyParagraph =>
          LET extra == Len(raw') - Column(Len(stack))
          IN  /\ stack' = stack
              /\ IF extra > 0 /\ EntirelyEmpty(docs[Top(stack)])
                 THEN IF Len(stack) = 1
                      THEN pc' = "error" /\ error' = ValueErrorRoot /\ docs' = docs
                      ELSE /\ pc' = "main"
                           /\ docs' = [docs EXCEPT ![Top(stack)].indent = @ + extra]
                 ELSE pc' = "main" /\ docs' = docs]_vars

\* a whitespace-only line longer than the indent reached an empty nested document,
\* which claimed the rest as indent
C18_Witness ==
    /\ ev.cls = "skip" /\ pc = "main" /\ IsBlank(raw) /\ Len(stack) >= 2
    /\ EntirelyEmpty(docs[Top(stack)])
    /\ Len(raw) = Column(Len(stack)) /\ docs[Top(stack)].indent = 3

\* C19: a continuation line (one that still starts with a space after the indent
\* is stripped) that is not refused adds a SourceLine to the most recent Line, and
\* whenever there is no Line to continue (the current paragraph is empty, or ends
\* in a code Block or in an Aside or List without a Line) the error raised is
\* `Invalid indentation`.
C19_ContinuationNeedsLine ==
    /\ (pc = "error" /\ ev.at = "continued") => ev.err = ValueErrorIndentation
    /\ (pc = "main" /\ ev.cls = "continued") =>
           /\ LineHome(docs, Top(stack)) # 0
           /\ Len(Last(DocParagraph(docs, LineHome(docs, Top(stack))).content).content) >= 2
           /\ Joined(NewestSourceLine.content) =
                  Plain(LStrip(Drop(raw, Column(Len(stack)))))

\* C20: parse terminates, by returning the root or by raising; every step before
\* that consumes exactly the next physical line, in the main loop or in a fence
\* scan, so no line is consumed twice or skipped; the scope-pop loop of a line runs
\* at most (stack depth - 1) times.
C20_TerminatesLinearly ==
    /\ <>(pc \in {"done", "error"})
    /\ [][/\ \/ (lineno' = lineno + 1 /\ pc \in {"main", "fence"} /\ raw' \in Lines)
             \/ (lineno' = lineno /\ raw' = raw /\ pc' \in {"done", "error"})
          /\ LineRead => ev'.popped <= Len(stack) - 1]_vars

\* a parse returned after consuming the whole file, lines of which were scanned
\* inside a fence and a line of which popped a scope
C20_Witness ==
    /\ pc = "done" /\ lineno = MaxLines - 1
    /\ \E d \in 1..Len(docs) : \E i \in 1..Len(docs[d].content) :
           /\ docs[d].content[i].kind = "Paragraph"
           /\ \E j \in 1..Len(docs[d].content[i].content) :
                  /\ docs[d].content[i].content[j].kind = "Block"
                  /\ Len(docs[d].content[i].content[j].content) >= 1
    /\ Len(docs) >= 2 /\ Len(stack) = 1

====
